---- MODULE Spec2Model ----
(***************************************************************************)
(* Model of resume-formatter: the section matcher and the table rewriter   *)
(* of DocXMLModifier (src/src/docx_modifier.py) and the modify_docx        *)
(* pipeline around them; the table snapshot of DocxXMLParser               *)
(* (src/src/docx_parser.py); and generate_tailored_resume                  *)
(* (src/src/generate_resume.py) with the retried calls and the schema      *)
(* validation of OpenAIHandler (src/src/openai_handler.py).                *)
(*                                                                         *)
(* Text is a sequence of one-character strings.  A table is a sequence of  *)
(* rows, a row a sequence of cells, a cell a sequence of paragraphs, a     *)
(* paragraph a record [pPr, runs], a run a record [rPr, t].  The value     *)
(* "none" of pPr / rPr stands for an absent properties element.            *)
(* A dict key that may be missing is a pair of fields: hasX and x.         *)
(* The character "U+1D400" is that code point (MATHEMATICAL BOLD CAPITAL   *)
(* A): an upper-case letter that str.lower leaves as it is.                *)
(***************************************************************************)
EXTENDS Integers, Sequences, FiniteSets

VARIABLES
    pc,       \* position of the current modify_docx invocation
    src,      \* name of the source container of the current invocation
    schema,   \* tailored_schema of the current invocation
    tree,     \* tables of the parsed document.xml (in memory)
    k,        \* index of the next table of the _modify_sections loop
    scratch,  \* the directory <output_dir>/docx_temp
    out,      \* the container written by the last _create_docx
    inv,      \* number of modify_docx invocations started
    mcall,    \* one call of _find_matching_section: arguments and result
    ucall,    \* one pass of the _modify_sections loop body over one table
    pcall,    \* one call of DocxXMLParser._parse_tables: document and result
    ncall,    \* _normalize_text applied to a string, and to its own result
    gen       \* one run of generate_tailored_resume up to modify_docx

vars == <<pc, src, schema, tree, k, scratch, out, inv, mcall, ucall, pcall, ncall, gen>>

(***************************************************************************)
(* Bounds                                                                  *)
(***************************************************************************)
MaxMatchBullets == 4   \* bullets of a section given alone to the matcher
MaxSections == 2       \* sections (experiences + projects) given to the matcher
MaxRows == 3           \* rows of a table given to the rewriter
MaxBullets == 3        \* bullets of a section given to the rewriter
MaxInvocations == 2    \* modify_docx invocations on one output directory

(***************************************************************************)
(* Text: str.lower, str.strip, re.sub(r"\s+", " ", .), the `in` operator   *)
(***************************************************************************)
LowerChar(c) ==
    CASE c = "D" -> "d"
      [] c = "C" -> "c"
      [] c = "X" -> "x"
      [] OTHER -> c

IsSpace(c) == c \in {" ", "\t"}

Lower(s) == [i \in 1..Len(s) |-> LowerChar(s[i])]

RECURSIVE LStrip(_)
LStrip(s) ==
    IF s # <<>> /\ IsSpace(Head(s)) THEN LStrip(Tail(s)) ELSE s

RECURSIVE RStrip(_)
RStrip(s) ==
    IF s # <<>> /\ IsSpace(s[Len(s)]) THEN RStrip(SubSeq(s, 1, Len(s) - 1)) ELSE s

Strip(s) == RStrip(LStrip(s))

\* re.sub(r"\s+", " ", s): every maximal run of whitespace becomes one space
RECURSIVE CollapseWs(_)
CollapseWs(s) ==
    IF s = <<>> THEN <<>>
    ELSE IF IsSpace(Head(s)) THEN <<" ">> \o CollapseWs(LStrip(s))
    ELSE <<Head(s)>> \o CollapseWs(Tail(s))

\* a variant that does not collapse the whitespace runs
NormalizeNoCollapse(text) == Strip(Lower(text))

_normalize_text(text) == CollapseWs(Strip(Lower(text)))

\* Python's `x in y` on strings
IsSubstr(x, y) ==
    \E i \in 0..(Len(y) - Len(x)) : SubSeq(y, i + 1, i + Len(x)) = x

\* " ".join(parts)
RECURSIVE JoinSp(_)
JoinSp(parts) ==
    IF parts = <<>> THEN <<>>
    ELSE IF Len(parts) = 1 THEN parts[1]
    ELSE parts[1] \o <<" ">> \o JoinSp(Tail(parts))

(***************************************************************************)
(* Schema access: dict.get(key, default)                                   *)
(***************************************************************************)
GetTitle(section) == IF section.hasTitle THEN section.title ELSE <<>>
GetCompany(section) == IF section.hasCompany THEN section.company ELSE <<>>
GetBullets(section) == IF section.hasBullets THEN section.bullet_points ELSE <<>>
GetText(bullet) == IF bullet.hasText THEN bullet.text ELSE <<>>
GetExperiences(sch) == IF sch.hasExperiences THEN sch.experiences ELSE <<>>
GetProjects(sch) == IF sch.hasProjects THEN sch.projects ELSE <<>>

\* tailored_schema.get("experiences", []) + tailored_schema.get("projects", [])
AllSections(sch) == GetExperiences(sch) \o GetProjects(sch)

(***************************************************************************)
(* _find_matching_section                                                  *)
(***************************************************************************)
\* bullet_matches after the loop over the section's bullets
RECURSIVE BulletMatches(_, _)
BulletMatches(bullets, table_text) ==
    IF bullets = <<>> THEN 0
    ELSE (IF IsSubstr(_normalize_text(GetText(Head(bullets))), table_text) THEN 1 ELSE 0)
         + BulletMatches(Tail(bullets), table_text)

\* the title / company branch of the loop body: TRUE when it returns the section
TitleCompanyMatch(section, table_text) ==
    LET title == _normalize_text(GetTitle(section))
        company == _normalize_text(GetCompany(section))
    IN  IF title # <<>> /\ company # <<>>
        THEN IsSubstr(title, table_text) /\ IsSubstr(company, table_text)
        ELSE title # <<>> /\ IsSubstr(title, table_text)

FallbackStrict(section, table_text) ==
    LET total_bullets == Len(GetBullets(section))
    IN  /\ total_bullets > 0
        /\ 2 * BulletMatches(GetBullets(section), table_text) > total_bullets

\* the bullet fallback of the loop body; bullet_matches / total_bullets >= 0.5
\* is exact on these small integers and is written 2 * matches >= total
BulletFallbackMatch(section, table_text) ==
    LET total_bullets == Len(GetBullets(section))
    IN  /\ total_bullets > 0
        /\ 2 * BulletMatches(GetBullets(section), table_text) >= total_bullets

\* one iteration of the loop returns the section
SectionMatches(section, table_text) ==
    \/ TitleCompanyMatch(section, table_text)
    \/ BulletFallbackMatch(section, table_text)

RECURSIVE FindFrom(_, _, _)
FindFrom(sections, table_text, i) ==
    IF i > Len(sections) THEN 0
    ELSE IF SectionMatches(sections[i], table_text) THEN i
    ELSE FindFrom(sections, table_text, i + 1)

\* the index in `sections` of the returned section, 0 for None
_find_matching_section(table_text, sections) ==
    FindFrom(sections, _normalize_text(table_text), 1)

(***************************************************************************)
(* Text extraction: _extract_table_text, _extract_row_text                 *)
(***************************************************************************)
RECURSIVE Flatten(_)
Flatten(seqs) ==
    IF seqs = <<>> THEN <<>> ELSE Head(seqs) \o Flatten(Tail(seqs))

\* the text of every w:t element beneath the node, in document order
TextsOfParagraph(p) == [i \in 1..Len(p.runs) |-> p.runs[i].t]
TextsOfCell(cell) == Flatten([i \in 1..Len(cell) |-> TextsOfParagraph(cell[i])])
TextsOfRow(row) == Flatten([i \in 1..Len(row) |-> TextsOfCell(row[i])])
TextsOfTable(table) == Flatten([i \in 1..Len(table) |-> TextsOfRow(table[i])])

\* [t.text.strip() for t in text_elements if t.text and t.text.strip()]
StrippedNonEmpty(texts) ==
    SelectSeq([i \in 1..Len(texts) |-> Strip(texts[i])], LAMBDA t : t # <<>>)

_extract_table_text(table) == JoinSp(StrippedNonEmpty(TextsOfTable(table)))

_extract_row_text(row) == JoinSp(StrippedNonEmpty(TextsOfRow(row)))

(***************************************************************************)
(* _update_row_content                                                     *)
(***************************************************************************)
\* new_paragraph: the captured pPr, and one run with the captured rPr and
\* one text node holding new_text
NewParagraphNoRPr(paragraph, new_text) ==
    [pPr |-> paragraph.pPr, runs |-> <<[rPr |-> "none", t |-> new_text]>>]

NewParagraph(paragraph, new_text) ==
    LET r_pr == IF paragraph.runs # <<>> THEN paragraph.runs[1].rPr ELSE "none"
    IN  [pPr |-> paragraph.pPr, runs |-> <<[rPr |-> r_pr, t |-> new_text]>>]

\* a variant that builds a paragraph in a cell that has none
UpdateRowFillEmptyCell(row, new_text) ==
    IF row = <<>> THEN row
    ELSE LET cell == row[1]
         IN  IF cell = <<>>
             THEN [row EXCEPT ![1] = <<[pPr |-> "none",
                                        runs |-> <<[rPr |-> "none", t |-> new_text]>>]>>]
             ELSE [row EXCEPT ![1] = Tail(cell) \o <<NewParagraph(cell[1], new_text)>>]

\* cell.remove(paragraph); cell.append(new_paragraph): the first paragraph
\* leaves the cell and the new one is added after the paragraphs that remain
_update_row_content(row, new_text) ==
    IF row = <<>> THEN row
    ELSE LET cell == row[1]
         IN  IF cell = <<>> THEN row
             ELSE [row EXCEPT ![1] = Tail(cell) \o <<NewParagraph(cell[1], new_text)>>]

(***************************************************************************)
(* _update_table_content                                                   *)
(*                                                                         *)
(* The live table is a sequence of [id, row]; id is the element's          *)
(* position in the snapshot `rows` (clones get fresh ids), so that         *)
(* table.remove(row) removes that element.  st.calls lists the             *)
(* _update_row_content calls made so far, st.err the exception raised.     *)
(***************************************************************************)
PosOf(tbl, id) == CHOOSE p \in 1..Len(tbl) : tbl[p].id = id

UpdateLive(st, id, new_text) ==
    LET pos == PosOf(st.tbl, id)
        before == st.tbl[pos].row
        after == _update_row_content(before, new_text)
    IN  [st EXCEPT !.tbl[pos].row = after,
                   !.calls = Append(@, [before |-> before, text |-> new_text,
                                        after |-> after, clone |-> FALSE])]

RemoveLive(st, id) ==
    [st EXCEPT !.tbl = SelectSeq(@, LAMBDA e : e.id # id)]

\* a variant without the copy: the last bullet row itself is rewritten and
\* appended once more
AppendShared(st, template_id, new_id, new_text) ==
    LET template_row == st.tbl[PosOf(st.tbl, template_id)].row
        after == _update_row_content(template_row, new_text)
        shared == [p \in 1..Len(st.tbl) |->
                      IF st.tbl[p].id = template_id
                      THEN [id |-> template_id, row |-> after] ELSE st.tbl[p]]
    IN  [st EXCEPT !.tbl = Append(shared, [id |-> template_id, row |-> after]),
                   !.calls = Append(@, [before |-> template_row, text |-> new_text,
                                        after |-> after, clone |-> TRUE])]

\* template_row = ET.fromstring(ET.tostring(bullet_rows[-1])), then
\* _update_row_content(template_row, text) and table.append(template_row)
AppendClone(st, template_id, new_id, new_text) ==
    LET template_row == st.tbl[PosOf(st.tbl, template_id)].row
        after == _update_row_content(template_row, new_text)
    IN  [st EXCEPT !.tbl = Append(@, [id |-> new_id, row |-> after]),
                   !.calls = Append(@, [before |-> template_row, text |-> new_text,
                                        after |-> after, clone |-> TRUE])]

\* start_row_index: 1 when title or company (raw) is `in` the first row's text
StartRowIndex(section, first_row_text) ==
    IF \/ IsSubstr(GetTitle(section), first_row_text)
       \/ IsSubstr(GetCompany(section), first_row_text)
    THEN 1 ELSE 0

\* for i, row in enumerate(bullet_rows): update or remove
\* (i is 1-based here; bullet_rows is the sequence of snapshot ids)
RECURSIVE UpdateOrRemove(_, _, _, _)
UpdateOrRemove(st, bullet_rows, bullet_points, i) ==
    IF i > Len(bullet_rows) THEN st
    ELSE IF i <= Len(bullet_points)
         THEN IF ~bullet_points[i].hasText
              THEN [st EXCEPT !.err = "KeyError"]
              ELSE UpdateOrRemove(UpdateLive(st, bullet_rows[i], bullet_points[i].text),
                                  bullet_rows, bullet_points, i + 1)
         ELSE UpdateOrRemove(RemoveLive(st, bullet_rows[i]),
                             bullet_rows, bullet_points, i + 1)

\* a variant that adds nothing when there is no bullet row to copy
RECURSIVE AddRowsIfAny(_, _, _, _, _)
AddRowsIfAny(st, bullet_rows, bullet_points, i, next_id) ==
    IF i > Len(bullet_points) THEN st
    ELSE IF bullet_rows = <<>> THEN st
    ELSE IF ~bullet_points[i].hasText THEN [st EXCEPT !.err = "KeyError"]
    ELSE AddRowsIfAny(AppendClone(st, bullet_rows[Len(bullet_rows)], next_id,
                                  bullet_points[i].text),
                      bullet_rows, bullet_points, i + 1, next_id + 1)

\* for i in range(len(bullet_rows), len(bullet_points)): clone and append
RECURSIVE AddRows(_, _, _, _, _)
AddRows(st, bullet_rows, bullet_points, i, next_id) ==
    IF i > Len(bullet_points) THEN st
    ELSE IF bullet_rows = <<>> THEN [st EXCEPT !.err = "IndexError"]
    ELSE IF ~bullet_points[i].hasText THEN [st EXCEPT !.err = "KeyError"]
    ELSE AddRows(AppendClone(st, bullet_rows[Len(bullet_rows)], next_id,
                             bullet_points[i].text),
                 bullet_rows, bullet_points, i + 1, next_id + 1)

\* the table after the call (after the exception, when err # "none"), the
\* start_row_index it used and the _update_row_content calls it made
_update_table_content(table, section) ==
    IF table = <<>>
    THEN [table |-> table, err |-> "IndexError", start |-> 0, calls |-> <<>>]
    ELSE
    LET rows == [i \in 1..Len(table) |-> [id |-> i, row |-> table[i]]]
        bullet_points == GetBullets(section)
        start_row_index == StartRowIndex(section, _extract_row_text(table[1]))
        bullet_rows == [i \in 1..(Len(table) - start_row_index) |-> start_row_index + i]
        st0 == [tbl |-> rows, err |-> "none", calls |-> <<>>]
        st1 == UpdateOrRemove(st0, bullet_rows, bullet_points, 1)
        st2 == IF st1.err # "none" THEN st1
               ELSE AddRows(st1, bullet_rows, bullet_points,
                            Len(bullet_rows) + 1, Len(table) + 1)
    IN  [table |-> [i \in 1..Len(st2.tbl) |-> st2.tbl[i].row],
         err |-> st2.err, start |-> start_row_index, calls |-> st2.calls]

(***************************************************************************)
(* _modify_sections: the loop body for one table                           *)
(***************************************************************************)
NoUpdate(table) == [table |-> table, err |-> "none", start |-> 0, calls |-> <<>>]

ModifyAlways(table, all_sections) ==
    LET matched == _find_matching_section(_extract_table_text(table), all_sections)
        r == IF all_sections = <<>> THEN NoUpdate(table)
             ELSE _update_table_content(table,
                      all_sections[IF matched = 0 THEN 1 ELSE matched])
    IN  [matched |-> matched, table |-> r.table, err |-> r.err,
         start |-> r.start, calls |-> r.calls]

\* matched: index of the matched section (0: none); the rest as for
\* _update_table_content
ModifyTable(table, all_sections) ==
    LET matched == _find_matching_section(_extract_table_text(table), all_sections)
        r == IF matched = 0 THEN NoUpdate(table)
             ELSE _update_table_content(table, all_sections[matched])
    IN  [matched |-> matched, table |-> r.table, err |-> r.err,
         start |-> r.start, calls |-> r.calls]

(***************************************************************************)
(* DocxXMLParser._parse_tables (src/src/docx_parser.py)                    *)
(***************************************************************************)
\* "".join([t.text for t in texts if t.text]) if texts else "": the text
\* nodes beneath the element, joined without separator and not stripped
_extract_paragraph_text(element) ==
    Flatten(SelectSeq(TextsOfCell(element), LAMBDA t : t # <<>>))

\* a variant that leaves out the cells that have no text
RowTextSkipEmpty(row) ==
    SelectSeq([c \in 1..Len(row) |-> _extract_paragraph_text(row[c])],
              LAMBDA t : t # <<>>)

\* row_text: one entry for every cell of the row
RowText(row) == [c \in 1..Len(row) |-> _extract_paragraph_text(row[c])]

\* table_info after the rows 1..i of the table have been visited
RECURSIVE ParseRows(_, _)
ParseRows(table, i) ==
    IF i = 0
    THEN [rows |-> <<>>, total_rows |-> Len(table), total_columns |-> 0]
    ELSE LET table_info == ParseRows(table, i - 1)
         IN  [table_info EXCEPT
                 !.total_columns = IF Len(table[i]) > @ THEN Len(table[i]) ELSE @,
                 !.rows = Append(@, RowText(table[i]))]

_parse_tables(doc) == [t \in 1..Len(doc) |-> ParseRows(doc[t], Len(doc[t]))]

(***************************************************************************)
(* OpenAIHandler._validate_schema (src/src/openai_handler.py)              *)
(***************************************************************************)
\* a variant that checks the two top-level keys only
ValidateTopLevel(sch) == sch.hasExperiences /\ sch.hasProjects

\* TRUE when _validate_schema returns, FALSE when it raises ValueError
_validate_schema(sch) ==
    /\ sch.hasExperiences
    /\ sch.hasProjects
    /\ \A i \in 1..Len(sch.experiences) :
          /\ sch.experiences[i].hasBullets
          /\ \A j \in 1..Len(sch.experiences[i].bullet_points) :
                /\ sch.experiences[i].bullet_points[j].hasText
                /\ sch.experiences[i].bullet_points[j].hasKeywords
    /\ \A i \in 1..Len(sch.projects) :
          /\ sch.projects[i].hasBullets
          /\ \A j \in 1..Len(sch.projects[i].bullet_points) :
                /\ sch.projects[i].bullet_points[j].hasText
                /\ sch.projects[i].bullet_points[j].hasKeywords

(***************************************************************************)
(* Inputs                                                                  *)
(***************************************************************************)
SeqsUpTo(S, n) == UNION {[1..m -> S] : m \in 0..n}

Bullet(text) == [hasText |-> TRUE, text |-> text, hasKeywords |-> TRUE]
BulletNoText == [hasText |-> FALSE, text |-> <<>>, hasKeywords |-> TRUE]
BulletNoKeywords(text) == [hasText |-> TRUE, text |-> text, hasKeywords |-> FALSE]

Section(hasTitle, title, hasCompany, company, hasBullets, bullets) ==
    [hasTitle |-> hasTitle, title |-> title,
     hasCompany |-> hasCompany, company |-> company,
     hasBullets |-> hasBullets, bullet_points |-> bullets]

Schema(hasExperiences, experiences, hasProjects, projects) ==
    [hasExperiences |-> hasExperiences, experiences |-> experiences,
     hasProjects |-> hasProjects, projects |-> projects]

EmptySchema == Schema(TRUE, <<>>, TRUE, <<>>)

\* an optional key: <<FALSE, <<>>>> is the missing key
Opt(values) == {<<FALSE, <<>>>>} \cup {<<TRUE, v>> : v \in values}

\* --- inputs of the matcher -------------------------------------------
MatchTexts == { <<"D", " ", "C", " ", "x">>, <<"D", " ", "\t", "x">>, <<"x">> }

MatchBullets == { Bullet(<<"X">>), Bullet(<<"w">>) }

\* one section with up to MaxMatchBullets bullets
SingleSections ==
    { Section(t[1], t[2], c[1], c[2], TRUE, b) :
        t \in Opt({<<"d">>, <<"q">>}),
        c \in Opt({<<"C">>, <<"q">>, <<" ">>}),
        b \in SeqsUpTo(MatchBullets, MaxMatchBullets) }

\* sections of a schema with several sections
ListSections ==
    { Section(t[1], t[2], c[1], c[2], TRUE, b) :
        t \in Opt({<<"d">>}),
        c \in Opt({<<"C">>, <<"q">>}),
        b \in SeqsUpTo(MatchBullets, 1) }

MatchSchemas ==
    { Schema(TRUE, SubSeq(x[1], 1, x[2]), TRUE, SubSeq(x[1], x[2] + 1, Len(x[1]))) :
        x \in { y \in (SeqsUpTo(ListSections, MaxSections) \cup SeqsUpTo(SingleSections, 1))
                      \X (0..MaxSections) : y[2] <= Len(y[1]) } }

\* --- inputs of the rewriter ------------------------------------------
Run(rPr, t) == [rPr |-> rPr, t |-> t]
Para(pPr, runs) == [pPr |-> pPr, runs |-> runs]

RowHeader == << << Para("none", <<Run("b", <<"D", " ", "C">>)>>) >> >>
RowHeaderLower == << << Para("none", <<Run("b", <<"d", " ", "c">>)>>) >> >>
RowX == << << Para("left", <<Run("b", <<"x">>)>>) >> >>
RowY == << << Para("none", <<Run("none", <<"y">>)>>) >> >>
RowMulti == << << Para("left", <<Run("b", <<"x">>), Run("i", <<"y">>)>>),
                  Para("right", <<Run("i", <<"n">>)>>) >> >>
RowNoCell == << >>
RowNoParagraph == << << >> >>

FirstRows == {RowHeader, RowHeaderLower, RowX, RowY, RowMulti, RowNoCell, RowNoParagraph}
BulletRows == {RowX, RowY, RowMulti, RowNoCell, RowNoParagraph}

UnitTables ==
    {<<>>} \cup
    { <<f>> \o rest : f \in FirstRows, rest \in SeqsUpTo(BulletRows, MaxRows - 1) }

\* the text of the bullet at each position of a section given to the rewriter
BulletChars == <<"x", "n", "y", "m", "z", "w">>

\* len bullets, the one at position miss (if any) without the text key
BulletList(len, miss) ==
    [i \in 1..len |-> IF i = miss THEN BulletNoText ELSE Bullet(<<BulletChars[i]>>)]

UnitBulletLists ==
    { BulletList(x[1], x[2]) :
        x \in { y \in (0..MaxBullets) \X (0..MaxBullets) : y[2] <= y[1] } }

UnitSections ==
    { Section(t[1], t[2], c[1], c[2], TRUE, b) :
        t \in Opt({<<"D">>}), c \in Opt({<<"C">>}), b \in UnitBulletLists }
    \cup
    { Section(t[1], t[2], c[1], c[2], FALSE, <<>>) :
        t \in Opt({<<"D">>}), c \in Opt({<<"C">>}) }
    \cup
    \* a section whose first bullet mentions its company
    { Section(TRUE, <<"D">>, TRUE, <<"C">>, TRUE, <<Bullet(<<"C", " ", "x">>), Bullet(<<"n">>)>>) }

(***************************************************************************)
(* Idle values of the variables a specification does not use               *)
(***************************************************************************)
NoParts == [p \in {} |-> ""]
NoMatchCall == [text |-> <<>>, schema |-> EmptySchema, result |-> 0, done |-> FALSE]
NoUnitCall == [table |-> <<>>, section |-> Section(FALSE, <<>>, FALSE, <<>>, FALSE, <<>>),
               res |-> [matched |-> 0, table |-> <<>>, err |-> "none",
                        start |-> 0, calls |-> <<>>],
               done |-> FALSE,
               res2 |-> [matched |-> 0, table |-> <<>>, err |-> "none",
                         start |-> 0, calls |-> <<>>],
               again |-> FALSE]

PipelineIdle ==
    /\ pc = "idle"
    /\ src = "none"
    /\ schema = EmptySchema
    /\ tree = <<>>
    /\ k = 0
    /\ scratch = [exists |-> FALSE, parts |-> NoParts, doc |-> <<>>]
    /\ out = [exists |-> FALSE, parts |-> NoParts, doc |-> <<>>]
    /\ inv = 0

PipelineVars == <<pc, src, schema, tree, k, scratch, out, inv>>
NoParseCall == [doc |-> <<>>, result |-> <<>>, done |-> FALSE]
NoNormCall == [x |-> <<>>, once |-> <<>>, twice |-> <<>>, n |-> 0]
NoGen == [pc |-> "off", kw_attempts |-> 0, tr_attempts |-> 0, keywords |-> FALSE,
          tailored |-> EmptySchema, saved |-> FALSE]

(***************************************************************************)
(* MatchSpec: _find_matching_section applied to one (table_text, schema)   *)
(***************************************************************************)
MatchInit ==
    /\ PipelineIdle
    /\ pcall = NoParseCall
    /\ ncall = NoNormCall
    /\ gen = NoGen
    /\ ucall = NoUnitCall
    /\ \E text \in MatchTexts, sch \in MatchSchemas :
          mcall = [text |-> text, schema |-> sch, result |-> 0, done |-> FALSE]

\* matched_section = self._find_matching_section(table_text, all_sections)
FindMatch ==
    /\ ~mcall.done
    /\ mcall' = [mcall EXCEPT
                    !.result = _find_matching_section(mcall.text, AllSections(mcall.schema)),
                    !.done = TRUE]
    /\ UNCHANGED <<PipelineVars, ucall, pcall, ncall, gen>>

MatchNext == FindMatch

MatchSpec == MatchInit /\ [][MatchNext]_vars

(***************************************************************************)
(* UnitSpec: the _modify_sections loop body on one table and one section   *)
(***************************************************************************)
UnitInit ==
    /\ PipelineIdle
    /\ pcall = NoParseCall
    /\ ncall = NoNormCall
    /\ gen = NoGen
    /\ mcall = NoMatchCall
    /\ \E table \in UnitTables, section \in UnitSections :
          ucall = [table |-> table, section |-> section,
                   res |-> [matched |-> 0, table |-> table, err |-> "none",
                            start |-> 0, calls |-> <<>>],
                   done |-> FALSE,
                   res2 |-> [matched |-> 0, table |-> table, err |-> "none",
                             start |-> 0, calls |-> <<>>],
                   again |-> FALSE]

ModifyOne ==
    /\ ~ucall.done
    /\ ucall' = [ucall EXCEPT !.res = ModifyTable(ucall.table, <<ucall.section>>),
                              !.done = TRUE]
    /\ UNCHANGED <<PipelineVars, mcall, pcall, ncall, gen>>

\* a second pass of the loop body, with the same section, over the table
\* the first pass rewrote
ModifyAgain ==
    /\ ucall.done
    /\ ~ucall.again
    /\ ucall.res.matched # 0
    /\ ucall.res.err = "none"
    /\ ucall' = [ucall EXCEPT !.res2 = ModifyTable(ucall.res.table, <<ucall.section>>),
                              !.again = TRUE]
    /\ UNCHANGED <<PipelineVars, mcall, pcall, ncall, gen>>

UnitNext == ModifyOne \/ ModifyAgain

UnitSpec == UnitInit /\ [][UnitNext]_vars

(***************************************************************************)
(* Spec: modify_docx invocations that share one output directory           *)
(*                                                                         *)
(* A container is [parts, tables]: parts maps the path of every part       *)
(* other than word/document.xml to its content, tables is the content of   *)
(* word/document.xml.  The directory docx_temp is [exists, parts, doc].    *)
(***************************************************************************)
SourceNames == {"A", "B"}

Sources ==
    [n \in SourceNames |->
        IF n = "A"
        THEN [parts |-> [p \in {"word/styles.xml", "word/media/image1.png"} |->
                            IF p = "word/styles.xml" THEN "A-styles" ELSE "A-image"],
              tables |-> << <<RowHeader, RowX, RowY>>, <<RowY>> >>]
        ELSE [parts |-> [p \in {"word/styles.xml"} |-> "B-styles"],
              tables |-> << <<RowX, RowMulti>>, <<RowHeader>> >>]]

PipelineSections ==
    { Section(TRUE, <<"D">>, TRUE, <<"C">>, TRUE, BulletList(2, 0)),
      Section(TRUE, <<"D">>, TRUE, <<"C">>, TRUE, BulletList(2, 2)),
      Section(TRUE, <<"D">>, TRUE, <<"C">>, FALSE, <<>>),
      Section(FALSE, <<>>, FALSE, <<>>, TRUE, BulletList(3, 0)),
      Section(TRUE, <<"q">>, FALSE, <<>>, TRUE, <<Bullet(<<"w">>)>>) }

PipelineSchemas ==
    { Schema(e[1], e[2], p[1], p[2]) :
        e \in Opt(SeqsUpTo(PipelineSections, 1)),
        p \in Opt(SeqsUpTo(PipelineSections, 1)) }

Init ==
    /\ PipelineIdle
    /\ mcall = NoMatchCall
    /\ ucall = NoUnitCall
    /\ pcall = NoParseCall
    /\ ncall = NoNormCall
    /\ gen = NoGen

\* zip_ref.extractall(temp_dir) into the directory as it is: every part of
\* the source is written, every other file of the directory stays
ExtractAll(dir, source) ==
    [exists |-> TRUE,
     parts |-> [p \in (DOMAIN dir.parts) \cup (DOMAIN source.parts) |->
                   IF p \in DOMAIN source.parts THEN source.parts[p] ELSE dir.parts[p]],
     doc |-> source.tables]

\* modify_docx up to tree.getroot(): makedirs, extractall, ET.parse
Start(s, sch) ==
    /\ pc \in {"idle", "done", "failed"}
    /\ inv < MaxInvocations
    /\ inv' = inv + 1
    /\ src' = s
    /\ schema' = sch
    /\ scratch' = ExtractAll(scratch, Sources[s])
    /\ tree' = Sources[s].tables
    /\ k' = 1
    /\ pc' = "modifying"
    /\ UNCHANGED <<out, mcall, ucall, pcall, ncall, gen>>

\* one pass of the loop of _modify_sections; an exception of
\* _update_table_content ends the invocation
ModifyNextTable ==
    /\ pc = "modifying"
    /\ k <= Len(tree)
    /\ LET r == ModifyTable(tree[k], AllSections(schema))
       IN  /\ tree' = [tree EXCEPT ![k] = r.table]
           /\ IF r.err # "none"
              THEN pc' = "failed" /\ k' = k
              ELSE pc' = pc /\ k' = k + 1
    /\ UNCHANGED <<src, schema, scratch, out, inv, mcall, ucall, pcall, ncall, gen>>

\* tree.write(document_xml_path, ...)
WriteXml ==
    /\ pc = "modifying"
    /\ k > Len(tree)
    /\ scratch' = [scratch EXCEPT !.doc = tree]
    /\ pc' = "written"
    /\ UNCHANGED <<src, schema, tree, k, out, inv, mcall, ucall, pcall, ncall, gen>>

\* _create_docx: every file under temp_dir goes into the new container
_create_docx ==
    /\ pc = "written"
    /\ out' = [exists |-> TRUE, parts |-> scratch.parts, doc |-> scratch.doc]
    /\ pc' = "zipped"
    /\ UNCHANGED <<src, schema, tree, k, scratch, inv, mcall, ucall, pcall, ncall, gen>>

\* shutil.rmtree(temp_dir); return output_path
Cleanup ==
    /\ pc = "zipped"
    /\ scratch' = [exists |-> FALSE, parts |-> NoParts, doc |-> <<>>]
    /\ pc' = "done"
    /\ UNCHANGED <<src, schema, tree, k, out, inv, mcall, ucall, pcall, ncall, gen>>

Next ==
    \/ \E s \in SourceNames, sch \in PipelineSchemas : Start(s, sch)
    \/ ModifyNextTable
    \/ WriteXml
    \/ _create_docx
    \/ Cleanup

Spec == Init /\ [][Next]_vars

(***************************************************************************)
(* ParseSpec: _parse_tables applied to one document                        *)
(***************************************************************************)
MaxCells == 2          \* cells of a row given to the parser
MaxParseRows == 2      \* rows of a table given to the parser

CellEmpty == << >>
CellX == <<Para("left", <<Run("b", <<"x">>)>>)>>
CellTwoRuns == <<Para("none", <<Run("none", <<" ", "D">>), Run("i", <<>>),
                                Run("i", <<"y", " ">>)>>)>>
ParseCells == {CellEmpty, CellX, CellTwoRuns}

ParseInit ==
    /\ PipelineIdle
    /\ mcall = NoMatchCall
    /\ ucall = NoUnitCall
    /\ ncall = NoNormCall
    /\ gen = NoGen
    /\ \E t \in SeqsUpTo(SeqsUpTo(ParseCells, MaxCells), MaxParseRows), two \in BOOLEAN :
          pcall = [doc |-> IF two THEN <<<<RowHeader, RowX>>, t>> ELSE <<t>>,
                   result |-> <<>>, done |-> FALSE]

ParseTables ==
    /\ ~pcall.done
    /\ pcall' = [pcall EXCEPT !.result = _parse_tables(pcall.doc), !.done = TRUE]
    /\ UNCHANGED <<PipelineVars, mcall, ucall, ncall, gen>>

ParseNext == ParseTables

ParseSpec == ParseInit /\ [][ParseNext]_vars

(***************************************************************************)
(* NormSpec: _normalize_text applied to a string and then to its result    *)
(***************************************************************************)
MaxNormLen == 5        \* length of a string given to _normalize_text

NormChars == {"D", "d", "y", " ", "\t", "U+1D400"}

NormInit ==
    /\ PipelineIdle
    /\ mcall = NoMatchCall
    /\ ucall = NoUnitCall
    /\ pcall = NoParseCall
    /\ gen = NoGen
    /\ \E x \in SeqsUpTo(NormChars, MaxNormLen) :
          ncall = [x |-> x, once |-> <<>>, twice |-> <<>>, n |-> 0]

NormalizeOnce ==
    /\ ncall.n = 0
    /\ ncall' = [ncall EXCEPT !.once = _normalize_text(ncall.x), !.n = 1]
    /\ UNCHANGED <<PipelineVars, mcall, ucall, pcall, gen>>

NormalizeAgain ==
    /\ ncall.n = 1
    /\ ncall' = [ncall EXCEPT !.twice = _normalize_text(ncall.once), !.n = 2]
    /\ UNCHANGED <<PipelineVars, mcall, ucall, pcall, gen>>

NormNext == NormalizeOnce \/ NormalizeAgain

NormSpec == NormInit /\ [][NormNext]_vars

(***************************************************************************)
(* GenSpec: one run of generate_tailored_resume                            *)
(*                                                                         *)
(* get_keywords and tailor_resume are wrapped in                           *)
(* @retry(stop=stop_after_attempt(3), ...): an attempt that raises is      *)
(* followed by another one until the third, whose exception ends the call. *)
(***************************************************************************)
MaxAttempts == 3

GenSections ==
    { Section(TRUE, <<"D">>, TRUE, <<"C">>, TRUE, BulletList(2, 0)),
      Section(FALSE, <<>>, FALSE, <<>>, TRUE, BulletList(3, 0)),
      Section(TRUE, <<"D">>, TRUE, <<"C">>, TRUE, BulletList(2, 2)),
      Section(TRUE, <<"D">>, TRUE, <<"C">>, TRUE, <<BulletNoKeywords(<<"x">>)>>),
      Section(TRUE, <<"D">>, TRUE, <<"C">>, FALSE, <<>>) }

GenSchemas ==
    { Schema(e[1], e[2], p[1], p[2]) :
        e \in Opt(SeqsUpTo(GenSections, 1)),
        p \in Opt(SeqsUpTo(GenSections, 1)) }

\* what one attempt of tailor_resume gets: an exception of the API call, a
\* response that is not JSON, or a response that parses to a schema
GenResponses ==
    {[kind |-> "api_error", schema |-> EmptySchema],
     [kind |-> "not_json", schema |-> EmptySchema]}
    \cup {[kind |-> "json", schema |-> sch] : sch \in GenSchemas}

GenInit ==
    /\ PipelineIdle
    /\ mcall = NoMatchCall
    /\ ucall = NoUnitCall
    /\ pcall = NoParseCall
    /\ ncall = NoNormCall
    /\ gen = [pc |-> "keywords", kw_attempts |-> 0, tr_attempts |-> 0,
              keywords |-> FALSE, tailored |-> EmptySchema, saved |-> FALSE]

\* one attempt of get_keywords: it returns the keyword list, or it raises
GetKeywordsAttempt(ok) ==
    /\ gen.pc = "keywords"
    /\ gen.kw_attempts < MaxAttempts
    /\ gen' = [gen EXCEPT
                  !.kw_attempts = @ + 1,
                  !.keywords = ok,
                  !.pc = IF ok THEN "tailor"
                         ELSE IF gen.kw_attempts + 1 = MaxAttempts THEN "error"
                         ELSE "keywords"]
    /\ UNCHANGED <<PipelineVars, mcall, ucall, pcall, ncall>>

\* one attempt of tailor_resume: json.loads and _validate_schema decide
\* whether it returns the schema or raises
TailorAttempt(resp) ==
    /\ gen.pc = "tailor"
    /\ gen.tr_attempts < MaxAttempts
    /\ LET ok == resp.kind = "json" /\ _validate_schema(resp.schema)
       IN  gen' = [gen EXCEPT
                      !.tr_attempts = @ + 1,
                      !.tailored = IF ok THEN resp.schema ELSE @,
                      !.pc = IF ok THEN "save"
                             ELSE IF gen.tr_attempts + 1 = MaxAttempts THEN "error"
                             ELSE "tailor"]
    /\ UNCHANGED <<PipelineVars, mcall, ucall, pcall, ncall>>

\* tailored_schema["keywords"] = keywords; json.dump to tailored_schema.json
SaveSchema ==
    /\ gen.pc = "save"
    /\ gen' = [gen EXCEPT !.saved = TRUE, !.pc = "modify"]
    /\ UNCHANGED <<PipelineVars, mcall, ucall, pcall, ncall>>

\* modifier.modify_docx(tailored_schema, self.output_dir)
GenModify ==
    /\ gen.pc = "modify"
    /\ inv = 0
    /\ \E s \in SourceNames : Start(s, gen.tailored)

GenNext ==
    \/ \E ok \in BOOLEAN : GetKeywordsAttempt(ok)
    \/ \E resp \in GenResponses : TailorAttempt(resp)
    \/ SaveSchema
    \/ GenModify
    \/ ModifyNextTable
    \/ WriteXml
    \/ _create_docx
    \/ Cleanup

GenSpec == GenInit /\ [][GenNext]_vars

(***************************************************************************)
(* Properties                                                              *)
(***************************************************************************)
\* what the matcher was called on
CallSections == AllSections(mcall.schema)
CallText == _normalize_text(mcall.text)

\* the number of the section's bullets whose normalized text occurs in the
\* normalized table text is at least half of its bullet count, and it has
\* at least one bullet
HalfOrMore(section, table_text) ==
    LET bl == GetBullets(section)
        hits == {i \in 1..Len(bl) : IsSubstr(_normalize_text(GetText(bl[i])), table_text)}
    IN  Len(bl) >= 1 /\ 2 * Cardinality(hits) >= Len(bl)

\* the section's normalized title is non-empty and occurs in the table text
TitleOccurs(section, table_text) ==
    /\ _normalize_text(GetTitle(section)) # <<>>
    /\ IsSubstr(_normalize_text(GetTitle(section)), table_text)

\* the section satisfies one of the three match rules as the specification
\* states them: title and company, title alone (company not required),
\* bullet fallback
SatisfiesRule(section, table_text) ==
    \/ TitleOccurs(section, table_text)
    \/ HalfOrMore(section, table_text)

\* C2: a section whose non-empty normalized title occurs in the normalized
\* table text satisfies the matcher, whatever its company: the matcher
\* returns that section or an earlier one.
C2_TitleAloneMatches ==
    mcall.done =>
        \A i \in 1..Len(CallSections) :
            TitleOccurs(CallSections[i], CallText) => mcall.result \in 1..i

\* C6: the matcher returns the earliest section, experiences before
\* projects, that satisfies at least one of the three match rules, and none
\* only when no section satisfies any rule.
C6_EarliestSatisfying ==
    mcall.done =>
        LET sat == {i \in 1..Len(CallSections) : SatisfiesRule(CallSections[i], CallText)}
        IN  IF sat = {} THEN mcall.result = 0
            ELSE mcall.result \in sat /\ \A j \in sat : mcall.result <= j

\* C7: a section that the title / company test does not match, and that no
\* earlier section keeps the matcher from reaching, is returned if and only
\* if it has at least one bullet and at least half of its bullets occur in
\* the table text.
C7_FallbackIffHalf ==
    mcall.done =>
        \A i \in 1..Len(CallSections) :
            ( /\ mcall.result \notin 1..(i - 1)
              /\ ~TitleCompanyMatch(CallSections[i], CallText) )
            => ( mcall.result = i <=> HalfOrMore(CallSections[i], CallText) )

\* C7 witness: a section without title match, 2 of its 4 bullets in the
\* table text, was returned by the fallback
C7_Witness ==
    /\ mcall.done
    /\ Len(CallSections) = 1
    /\ ~TitleCompanyMatch(CallSections[1], CallText)
    /\ Len(GetBullets(CallSections[1])) = 4
    /\ BulletMatches(GetBullets(CallSections[1]), CallText) = 2
    /\ mcall.result = 1

\* the _update_row_content calls that found a cell and a paragraph
Rewrites == {j \in 1..Len(ucall.res.calls) :
                /\ ucall.res.calls[j].before # <<>>
                /\ ucall.res.calls[j].before[1] # <<>>}

\* 1 when the section has a title or a company (a non-empty one) whose raw
\* text occurs in the raw text of the first row, else 0
HeaderPerSpec(section, first_row_text) ==
    IF \/ (GetTitle(section) # <<>> /\ IsSubstr(GetTitle(section), first_row_text))
       \/ (GetCompany(section) # <<>> /\ IsSubstr(GetCompany(section), first_row_text))
    THEN 1 ELSE 0

\* the number of header rows of the table as the specification states it
HeaderRows == HeaderPerSpec(ucall.section, _extract_row_text(ucall.table[1]))

\* a single-cell row whose cell holds one paragraph
IsBulletRow(row) == Len(row) = 1 /\ Len(row[1]) = 1

\* C1: after _update_table_content on a matched table with at least one
\* bullet row, every bullet row single-cell with a paragraph, the rows after
\* the optional header row are exactly the section's bullets, in order.
C1_RowsAreBullets ==
    ( /\ ucall.done
      /\ ucall.res.matched # 0
      /\ ucall.res.err = "none"
      /\ Len(ucall.table) - HeaderRows >= 1
      /\ \A i \in (HeaderRows + 1)..Len(ucall.table) : IsBulletRow(ucall.table[i]) )
    => LET bl == GetBullets(ucall.section)
       IN  /\ Len(ucall.res.table) = HeaderRows + Len(bl)
           /\ \A i \in 1..Len(bl) :
                 _extract_row_text(ucall.res.table[HeaderRows + i]) = GetText(bl[i])

\* C3: bullet rows start at index 1 exactly when the section has a title or
\* a company whose raw text occurs in the raw text of the first row; in
\* every other case they start at index 0 and the first row is rewritten.
C3_StartIndex ==
    ( /\ ucall.done
      /\ ucall.res.matched # 0
      /\ ucall.table # <<>> )
    => /\ ucall.res.start = HeaderRows
       /\ ( /\ HeaderRows = 0
            /\ ucall.res.calls # <<>> )
          => ucall.res.calls[1].before = ucall.table[1]

\* C5: after _update_row_content on a row whose cell has a paragraph, the
\* cell holds exactly one paragraph, with exactly one run whose text is the
\* new text.
C5_OneParagraphLeft ==
    ucall.done =>
        \A j \in Rewrites :
            LET c == ucall.res.calls[j]
            IN  /\ Len(c.after[1]) = 1
                /\ Len(c.after[1][1].runs) = 1
                /\ c.after[1][1].runs[1].t = c.text

\* C9: the paragraph _update_row_content builds carries the paragraph
\* properties of the row's first paragraph and its single run the run
\* properties of that paragraph's first run, with the new text; the rest of
\* the row is as before; every appended row is the outcome of such a
\* rewrite of a copy of the last bullet row.
C9_PropertiesPreserved ==
    ucall.done =>
        /\ \A j \in Rewrites :
              LET c == ucall.res.calls[j]
                  old == c.before[1][1]
                  new == c.after[1][Len(c.after[1])]
              IN  /\ new.pPr = old.pPr
                  /\ Len(new.runs) = 1
                  /\ new.runs[1].rPr = (IF old.runs = <<>> THEN "none" ELSE old.runs[1].rPr)
                  /\ new.runs[1].t = c.text
                  /\ Len(c.after) = Len(c.before)
                  /\ \A x \in 2..Len(c.before) : c.after[x] = c.before[x]
        /\ LET clones == SelectSeq(ucall.res.calls, LAMBDA c : c.clone)
           IN  \A j \in 1..Len(clones) :
                  /\ Len(ucall.res.table) >= Len(ucall.table) + j
                  /\ clones[j].before = ucall.res.table[Len(ucall.table)]
                  /\ clones[j].after = ucall.res.table[Len(ucall.table) + j]

\* C9 witness: a bold, left-aligned bullet row was rewritten and a copy of
\* it was rewritten and appended
C9_Witness ==
    /\ ucall.done
    /\ ucall.res.err = "none"
    /\ \E j \in Rewrites :
          /\ ~ucall.res.calls[j].clone
          /\ ucall.res.calls[j].before[1][1].pPr = "left"
          /\ ucall.res.calls[j].before[1][1].runs[1].rPr = "b"
          /\ ucall.res.calls[j].before[1][1].runs[1].t # ucall.res.calls[j].text
    /\ \E j \in Rewrites :
          /\ ucall.res.calls[j].clone
          /\ ucall.res.calls[j].after[1][1].runs[1].rPr = "b"

\* the schema lacks experiences or projects, or has a section without
\* bullet_points, or a bullet without text
SchemaInvalid(sch) ==
    \/ ~sch.hasExperiences
    \/ ~sch.hasProjects
    \/ \E i \in 1..Len(AllSections(sch)) :
          \/ ~AllSections(sch)[i].hasBullets
          \/ \E j \in 1..Len(AllSections(sch)[i].bullet_points) :
                ~AllSections(sch)[i].bullet_points[j].hasText

\* C4: for a schema that lacks a required key no table of the document is
\* ever modified, and the invocation never gets to write the document.
C4_InvalidSchemaChangesNothing ==
    (pc # "idle" /\ SchemaInvalid(schema)) =>
        /\ tree = Sources[src].tables
        /\ pc \notin {"written", "zipped", "done"}

\* the tables of the current source that match no section of the schema
Unmatched ==
    {j \in 1..Len(Sources[src].tables) :
        _find_matching_section(_extract_table_text(Sources[src].tables[j]),
                               AllSections(schema)) = 0}

\* C8: a table that matches no section is the same in the tree as in the
\* source once the loop has passed it, and so it is in the document written
\* and in the output container; when no table matches, the written document
\* and the output document equal the source document.
C8_UnmatchedUnchanged ==
    pc # "idle" =>
        /\ Len(tree) = Len(Sources[src].tables)
        /\ \A j \in Unmatched : tree[j] = Sources[src].tables[j]
        /\ pc \in {"written", "zipped"} =>
              /\ Len(scratch.doc) = Len(Sources[src].tables)
              /\ \A j \in Unmatched : scratch.doc[j] = Sources[src].tables[j]
        /\ pc \in {"zipped", "done"} =>
              /\ Len(out.doc) = Len(Sources[src].tables)
              /\ \A j \in Unmatched : out.doc[j] = Sources[src].tables[j]

\* C8 witness: an invocation ended that rewrote one table of the document
\* and left another, which matched no section, as it was
C8_Witness ==
    /\ pc = "done"
    /\ \E j \in Unmatched : out.doc[j] = Sources[src].tables[j]
    /\ \E i \in 1..Len(out.doc) : out.doc[i] # Sources[src].tables[i]

\* C10: after a successful modify_docx the output container has the part
\* paths of the source container, and every part other than
\* word/document.xml has the content it has in the source.
C10_SamePartsAsSource ==
    pc = "done" =>
        /\ out.exists
        /\ DOMAIN out.parts = DOMAIN Sources[src].parts
        /\ \A p \in DOMAIN Sources[src].parts : out.parts[p] = Sources[src].parts[p]

\* the _update_row_content calls on a row without cell, or whose cell has
\* no paragraph
Skipped == (1..Len(ucall.res.calls)) \ Rewrites

\* C11: _update_row_content on a row that has no cell, or whose cell has no
\* paragraph, returns the row as it was and raises nothing: an exception of
\* the table rewrite comes from a bullet without text or from an empty list
\* of bullet rows only, and the bullet after the one given to such a row is
\* given to the next row (or to the next appended copy).
C11_MalformedRowSkipped ==
    (ucall.done /\ Skipped # {}) =>
        LET calls == ucall.res.calls
            bl == GetBullets(ucall.section)
        IN  /\ \A j \in Skipped : calls[j].after = calls[j].before
            /\ \A j \in 1..Len(calls) : calls[j].text = GetText(bl[j])
            /\ ucall.res.err # "none" =>
                  /\ ucall.res.err = "KeyError"
                  /\ Len(calls) < Len(bl)
                  /\ ~bl[Len(calls) + 1].hasText
            /\ ucall.res.err = "none" =>
                  /\ Len(calls) = Len(bl)
                  /\ Len(ucall.res.table) = ucall.res.start + Len(bl)
                  /\ \A j \in 1..Len(bl) :
                        ucall.res.table[ucall.res.start + j] = calls[j].after

\* C11 witness: a row without cell or without paragraph was passed over and
\* the row after it was rewritten with the next bullet
C11_Witness ==
    /\ ucall.done
    /\ ucall.res.err = "none"
    /\ \E j \in Skipped :
          /\ j + 1 \in Rewrites
          /\ ~ucall.res.calls[j + 1].clone
          /\ ucall.res.calls[j + 1].after # ucall.res.calls[j + 1].before
          /\ ucall.res.table[ucall.res.start + j] \in {RowNoCell, RowNoParagraph}

\* the number of w:t elements beneath the cell
TextNodes(cell) == Len(TextsOfCell(cell))

\* C12: for every table of the snapshot of _parse_tables, total_rows is the
\* number of entries of rows, total_columns is the largest number of cells
\* of a row of the table (0 without rows), every row entry has one text for
\* every cell of the row, and the text of a cell without text node is the
\* empty string.
C12_TableCounts ==
    pcall.done =>
        /\ Len(pcall.result) = Len(pcall.doc)
        /\ \A t \in 1..Len(pcall.doc) :
              LET table == pcall.doc[t]
                  info == pcall.result[t]
              IN  /\ info.total_rows = Len(info.rows)
                  /\ Len(info.rows) = Len(table)
                  /\ \A i \in 1..Len(table) : info.total_columns >= Len(table[i])
                  /\ \/ table = <<>> /\ info.total_columns = 0
                     \/ \E i \in 1..Len(table) : info.total_columns = Len(table[i])
                  /\ \A i \in 1..Len(info.rows) :
                        /\ Len(info.rows[i]) = Len(table[i])
                        /\ \A c \in 1..Len(table[i]) :
                              TextNodes(table[i][c]) = 0 => info.rows[i][c] = <<>>

\* C12 witness: a parsed table whose widest row is wider than another row
\* and ends in a cell without text node, next to a cell with text
C12_Witness ==
    /\ pcall.done
    /\ \E t \in 1..Len(pcall.doc) :
          LET table == pcall.doc[t]
              info == pcall.result[t]
          IN  \E i, j \in 1..Len(table) :
                 /\ Len(table[i]) = 2
                 /\ Len(table[j]) = 1
                 /\ info.total_columns = 2
                 /\ info.total_rows = 2
                 /\ TextNodes(table[i][2]) = 0
                 /\ info.rows[i][2] = <<>>
                 /\ info.rows[i][1] = <<" ", "D", "y", " ">>

\* str.isupper of one character
IsUpper(c) == c \in {"D", "C", "X", "U+1D400"}

\* no leading or trailing whitespace and no two whitespace characters in a row
NoSpareWhitespace(s) ==
    /\ s # <<>> => ~IsSpace(s[1]) /\ ~IsSpace(s[Len(s)])
    /\ \A i \in 1..(Len(s) - 1) : ~(IsSpace(s[i]) /\ IsSpace(s[i + 1]))

\* C13: _normalize_text is idempotent, and its result has no upper-case
\* letter, no leading or trailing whitespace and no run of two or more
\* whitespace characters.
C13_NormalizeIdempotent ==
    ncall.n = 2 =>
        /\ ncall.twice = ncall.once
        /\ \A i \in 1..Len(ncall.once) : ~IsUpper(ncall.once[i])
        /\ NoSpareWhitespace(ncall.once)

\* C13 as it holds: _normalize_text is idempotent, and its result is a
\* fixed point of lower-casing (an upper-case letter stays in it only when
\* it has no lower-case form), has no leading or trailing whitespace, and
\* its only whitespace is single spaces between other characters.
C13_IdempotentLowerFixed ==
    ncall.n = 2 =>
        /\ ncall.twice = ncall.once
        /\ Lower(ncall.once) = ncall.once
        /\ \A i \in 1..Len(ncall.once) :
              IsUpper(ncall.once[i]) => LowerChar(ncall.once[i]) = ncall.once[i]
        /\ NoSpareWhitespace(ncall.once)
        /\ \A i \in 1..Len(ncall.once) : IsSpace(ncall.once[i]) => ncall.once[i] = " "

\* C13 witness: a string with an upper-case letter, leading whitespace and
\* a whitespace run between two letters was normalized twice
C13_Witness ==
    /\ ncall.n = 2
    /\ Len(ncall.x) >= 5
    /\ IsSpace(ncall.x[1])
    /\ \E i \in 1..(Len(ncall.x) - 3) :
          /\ ncall.x[i] = "D"
          /\ ncall.x[i + 1] = "\t"
          /\ IsSpace(ncall.x[i + 2])
          /\ ~IsSpace(ncall.x[i + 3])
    /\ ncall.once = <<"d", " ", "y">>
    /\ ncall.twice = ncall.once

\* the _update_row_content calls on rows of the table, and those on copies
OwnCalls == SelectSeq(ucall.res.calls, LAMBDA c : ~c.clone)
CloneCalls == SelectSeq(ucall.res.calls, LAMBDA c : c.clone)

\* C14: when rows are appended, every appended row is a copy of the last
\* bullet row as its own rewrite left it; in the table returned the last
\* bullet row is still as that rewrite left it, with the bullet of its own
\* position, every appended row is as its rewrite left it, with the bullet
\* of its position, and the appended rows come after all rows of the
\* table, in bullet order.
C14_ClonesIndependent ==
    (ucall.done /\ ucall.res.err = "none" /\ CloneCalls # <<>>) =>
        LET n == Len(ucall.table)
            own == Len(OwnCalls)
            bl == GetBullets(ucall.section)
        IN  /\ own >= 1
            /\ own = n - ucall.res.start
            /\ Len(ucall.res.table) = n + Len(CloneCalls)
            /\ Len(bl) = own + Len(CloneCalls)
            /\ OwnCalls[own].before = ucall.table[n]
            /\ OwnCalls[own].text = GetText(bl[own])
            /\ ucall.res.table[n] = OwnCalls[own].after
            /\ \A i \in 1..own : ucall.res.table[ucall.res.start + i] = OwnCalls[i].after
            /\ \A j \in 1..Len(CloneCalls) :
                  /\ CloneCalls[j].before = OwnCalls[own].after
                  /\ CloneCalls[j].text = GetText(bl[own + j])
                  /\ ucall.res.table[n + j] = CloneCalls[j].after

\* C14 witness: two copies of a rewritten bullet row were appended, and the
\* three rows hold three different bullets
C14_Witness ==
    /\ ucall.done
    /\ ucall.res.err = "none"
    /\ Len(CloneCalls) = 2
    /\ LET n == Len(ucall.table)
       IN  /\ IsBulletRow(ucall.table[n])
           /\ _extract_row_text(ucall.res.table[n]) # _extract_row_text(ucall.table[n])
           /\ _extract_row_text(ucall.res.table[n]) # _extract_row_text(ucall.res.table[n + 1])
           /\ _extract_row_text(ucall.res.table[n]) # _extract_row_text(ucall.res.table[n + 2])
           /\ _extract_row_text(ucall.res.table[n + 1]) # _extract_row_text(ucall.res.table[n + 2])

\* the section the next table of the loop matches (0: none)
MatchedNow == _find_matching_section(_extract_table_text(tree[k]), AllSections(schema))

\* the loop is at a matched table with no row after its header row, and
\* the matched section has a bullet
HeaderOnlyNow ==
    /\ pc = "modifying"
    /\ k <= Len(tree)
    /\ MatchedNow # 0
    /\ tree[k] # <<>>
    /\ Len(tree[k]) = StartRowIndex(AllSections(schema)[MatchedNow],
                                    _extract_row_text(tree[k][1]))
    /\ GetBullets(AllSections(schema)[MatchedNow]) # <<>>

\* C15: at a matched table with only a header row and a section with at
\* least one bullet, the step of the loop fails: it ends the invocation with
\* the table as it was (no row appended), the document part of docx_temp
\* as extracted and the output container untouched; and a failed
\* invocation takes no further step (the next step is a new invocation),
\* so it writes neither the document part nor a container.
C15_HeaderOnlyFails ==
    [][/\ HeaderOnlyNow =>
             /\ pc' = "failed"
             /\ tree' = tree
             /\ scratch' = scratch
             /\ scratch.doc = Sources[src].tables
             /\ out' = out
       /\ pc = "failed" => pc' = "modifying" /\ inv' = inv + 1]_vars

\* C15 witness: an invocation failed at a matched table with only a header
\* row, after it had rewritten an earlier table
C15_Witness ==
    /\ pc = "failed"
    /\ Len(tree[k]) = 1
    /\ MatchedNow # 0
    /\ GetBullets(AllSections(schema)[MatchedNow]) # <<>>
    /\ \A i \in 1..Len(GetBullets(AllSections(schema)[MatchedNow])) :
          GetBullets(AllSections(schema)[MatchedNow])[i].hasText
    /\ tree[k] = Sources[src].tables[k]
    /\ k > 1
    /\ tree[1] # Sources[src].tables[1]
    /\ scratch.doc = Sources[src].tables

\* the schema has experiences and projects, every section has bullet_points
\* and every bullet has text and keywords
WellFormed(sch) ==
    /\ ~SchemaInvalid(sch)
    /\ \A i \in 1..Len(AllSections(sch)) :
          \A j \in 1..Len(AllSections(sch)[i].bullet_points) :
              AllSections(sch)[i].bullet_points[j].hasKeywords

\* C16: modify_docx has begun only when get_keywords and tailor_resume have
\* both returned, with a schema that has every required key; each of the two
\* calls makes at most 3 attempts; and when the last attempt of either has
\* failed the run has ended with the error: no modify_docx step has been
\* taken and there is no docx_temp and no output container.
C16_ModifyAfterBoth ==
    /\ gen.kw_attempts \in 0..MaxAttempts
    /\ gen.tr_attempts \in 0..MaxAttempts
    /\ gen.tr_attempts > 0 => gen.keywords
    /\ pc # "idle" =>
          /\ gen.pc = "modify"
          /\ gen.keywords
          /\ gen.kw_attempts >= 1
          /\ gen.tr_attempts >= 1
          /\ schema = gen.tailored
          /\ WellFormed(schema)
    /\ (gen.kw_attempts = MaxAttempts /\ ~gen.keywords) => gen.pc = "error"
    /\ (gen.tr_attempts = MaxAttempts /\ gen.pc \notin {"save", "modify"}) => gen.pc = "error"
    /\ gen.pc = "error" =>
          /\ pc = "idle"
          /\ inv = 0
          /\ ~scratch.exists
          /\ ~out.exists
          /\ ~gen.saved
          /\ \/ gen.kw_attempts = MaxAttempts /\ ~gen.keywords
             \/ gen.tr_attempts = MaxAttempts

\* C16 witness: get_keywords returned at its second attempt, tailor_resume
\* at its third, and modify_docx then produced a container with a rewritten
\* table
C16_Witness ==
    /\ gen.kw_attempts = 2
    /\ gen.tr_attempts = 3
    /\ pc = "done"
    /\ out.exists
    /\ out.doc # Sources[src].tables

\* C17: a second pass over the rewritten table with the same section
\* raises nothing and returns the table the first pass returned: the same
\* rows in the same order with the same contents.
C17_RewriteIdempotent ==
    ucall.again =>
        /\ ucall.res2.err = "none"
        /\ ucall.res2.table = ucall.res.table

\* C18: while an invocation works in docx_temp, and when it rebuilds the
\* container from it, docx_temp holds the parts of that invocation's own
\* source and no other file; after a successful invocation docx_temp does
\* not exist.
C18_ScratchOwnPartsOnly ==
    /\ pc \in {"modifying", "written", "zipped"} =>
          /\ scratch.exists
          /\ DOMAIN scratch.parts = DOMAIN Sources[src].parts
          /\ \A p \in DOMAIN Sources[src].parts : scratch.parts[p] = Sources[src].parts[p]
    /\ pc = "done" => ~scratch.exists

====
